---- MODULE Spec2Model ----
(***************************************************************************)
(* NeuroNest "second brain" page (src/app/layout.tsx, component Home):     *)
(* five persisted domain stores (notes, tasks, reminders, files, chat),    *)
(* their form handlers, the derived views and the preview-URL lifetime.    *)
(*                                                                         *)
(* Texts are sequences of one-character strings, so that trim() and        *)
(* includes() are computed and not assumed.  Times are integers (one unit  *)
(* is one hour).  Optional fields (dueDate?, previewUrl?) are sequences of *)
(* length 0 or 1.  Fields that no handler or derived view reads (tags,     *)
(* createdAt, updatedAt, priority, size, type, description, uploadedAt,    *)
(* timestamp) are left out of the records.                                 *)
(***************************************************************************)
EXTENDS Integers, Sequences, FiniteSets, Bags, TLC

\* ---------------------------------------------------------------- bounds
MaxUid == 3
MaxTime == 2
MaxUpload == 2
MaxRevokes == 2
MaxTasks == 40

\* ----------------------------------------------------------------- texts
Empty == << >>
Blank == <<" ">>
TitleA == <<"a">>
TitleAPadded == <<" ", "a", " ">>
BodyB == <<"b">>
UntitledNote == <<"U","n","t","i","t","l","e","d"," ","N","o","t","e">>
FileName == <<"f">>
Hi == <<"h", "i">>
NoteWord == <<"N", "o", "t", "e">>
TaskWord == <<"t", "a", "s", "k">>

IsSpace(c) == c = " "

RECURSIVE TrimStart(_)
TrimStart(s) ==
    IF s = << >> THEN << >>
    ELSE IF IsSpace(Head(s)) THEN TrimStart(Tail(s)) ELSE s

RECURSIVE TrimEnd(_)
TrimEnd(s) ==
    IF s = << >> THEN << >>
    ELSE IF IsSpace(s[Len(s)]) THEN TrimEnd(SubSeq(s, 1, Len(s) - 1)) ELSE s

\* String.prototype.trim
Trim(s) == TrimEnd(TrimStart(s))

\* JavaScript truthiness of a string: non-empty
Truthy(s) == s # << >>

Range(s) == {s[i] : i \in 1..Len(s)}

\* Array.prototype.filter for "x.id !== id"
RemoveById(s, id) == SelectSeq(s, LAMBDA x : x.id # id)

\* Array.prototype.find for "x.id === id": the first match, as 0 or 1 elements
FindById(s, id) ==
    LET hit == SelectSeq(s, LAMBDA x : x.id = id)
    IN  IF hit = << >> THEN << >> ELSE <<Head(hit)>>

\* Array.prototype.sort is stable: insertion after every element whose key is
\* not greater keeps equal keys in their original order.
RECURSIVE InsertStable(_, _, _)
InsertStable(x, t, key) ==
    IF t = << >> THEN <<x>>
    ELSE IF key[Head(t)] <= key[x]
         THEN <<Head(t)>> \o InsertStable(x, Tail(t), key)
         ELSE <<x>> \o t

RECURSIVE StableSort(_, _)
StableSort(s, key) ==
    IF s = << >> THEN << >>
    ELSE InsertStable(s[Len(s)], StableSort(SubSeq(s, 1, Len(s) - 1), key), key)

\* Array.prototype.slice(0, n)
Slice0(s, n) == SubSeq(s, 1, IF Len(s) < n THEN Len(s) ELSE n)

\* ------------------------------------------------------ persisted storage
KeyNotes == "neuronest.notes"
KeyTasks == "neuronest.tasks"
KeyReminders == "neuronest.reminders"
KeyFiles == "neuronest.files"
KeyChat == "neuronest.chat"
Keys == {KeyNotes, KeyTasks, KeyReminders, KeyFiles, KeyChat}

\* localStorage.getItem results: no entry, text that JSON.parse rejects, or
\* the text JSON.stringify produced for a value.
Absent == [kind |-> "absent", value |-> << >>]
Malformed == [kind |-> "malformed", value |-> << >>]
Stringify(v) == [kind |-> "json", value |-> v]
ParseOk(text) == text.kind = "json"
Parse(text) == text.value

\* usePersistentState, first use: the parsed stored value, else the default
LoadOrDefault(text, default) ==
    IF ParseOk(text) THEN Parse(text) ELSE default

\* ------------------------------------------------------------- defaults
\* The seed collections of lib/defaultData; the chat cell's default is the
\* welcome message.
defaultNotes == << >>
defaultTasks == << >>
defaultReminders == << >>
defaultFiles == << >>
ChatWelcomeId == 0
defaultChat == <<[id |-> ChatWelcomeId, role |-> "assistant", content |-> Empty]>>

\* the chat cell given the notes default instead of the welcome message
DefaultOf_ChatSharesNotesDefault(key) ==
    CASE key = KeyNotes -> defaultNotes
      [] key = KeyTasks -> defaultTasks
      [] key = KeyReminders -> defaultReminders
      [] key = KeyFiles -> defaultFiles
      [] key = KeyChat -> defaultNotes

\* the default each usePersistentState call of Home supplies for its key
DefaultOf(key) ==
    CASE key = KeyNotes -> defaultNotes
      [] key = KeyTasks -> defaultTasks
      [] key = KeyReminders -> defaultReminders
      [] key = KeyFiles -> defaultFiles
      [] key = KeyChat -> defaultChat

\* uid(): the n-th call returns a token no other call returns
Uid(n) == n

\* ----------------------------------------------------------------- state
VARIABLES
    mounted,        \* Home is mounted
    storage,        \* localStorage: key -> text
    cells,          \* the in-memory value of each persistent state cell
    filesAtMount,   \* `files` as captured by the []-deps effect's cleanup
    nextReminder,   \* memoised on [reminders]: 0 or 1 reminder
    isThinking,     \* useState flag set by sendMessage
    timers,         \* pending setTimeout callbacks, each with its closure
    now,            \* Date.now()
    uidCount,       \* uid() calls so far
    urlCount,       \* URL.createObjectURL calls so far
    revoked,        \* bag of URL.revokeObjectURL calls
    lastOp          \* history: the last event dispatched and its input

vars == <<mounted, storage, cells, filesAtMount, nextReminder, isThinking, timers,
          now, uidCount, urlCount, revoked, lastOp>>

notes == cells[KeyNotes]
tasks == cells[KeyTasks]
reminders == cells[KeyReminders]
files == cells[KeyFiles]
chatMessages == cells[KeyChat]

\* `repeated`: the same event with the same input was also the previous event
Op(name, arg) ==
    [event |-> name, input |-> arg, repeated |-> lastOp.event = name /\ lastOp.input = arg]

\* a setter that persists the value but leaves the cell as it was
SetCell_StaleMemory(key, value) ==
    /\ cells' = cells
    /\ storage' = [storage EXCEPT ![key] = Stringify(value)]

\* the setter of a persistent state cell, invoked with a value or with the
\* result of its update function on the current value: the cell takes the
\* value and the value is written to storage as text
SetCell(key, value) ==
    /\ cells' = [cells EXCEPT ![key] = value]
    /\ storage' = [storage EXCEPT ![key] = Stringify(value)]

\* ------------------------------------------------- IEEE-754 double arithmetic
\* A positive double is [bits, exp]: `bits` is the 53-bit significand, most
\* significant bit first (always 1), and the value is bits * 2^exp.  Zero is
\* [bits |-> << >>, exp |-> 0].  Only what progressScore computes is here: a
\* quotient of two small integers, a product with 100, and Math.round.
Mantissa == 53

FZero == [bits |-> << >>, exp |-> 0]

Zeros(k) == [i \in 1..k |-> 0]

\* binary digits of r / n after the point, for 0 <= r < n
RECURSIVE DivDigits(_, _, _)
DivDigits(r, n, k) ==
    IF k = 0 THEN << >>
    ELSE LET d == IF 2 * r >= n THEN 1 ELSE 0
         IN  <<d>> \o DivDigits(2 * r - d * n, n, k - 1)

\* what is left of r / n after k digits
RECURSIVE DivRest(_, _, _)
DivRest(r, n, k) ==
    IF k = 0 THEN r
    ELSE DivRest(2 * r - (IF 2 * r >= n THEN n ELSE 0), n, k - 1)

\* a bit string plus one; all ones becomes 1 followed by zeros, one longer
RECURSIVE IncBits(_)
IncBits(b) ==
    IF b = << >> THEN <<1>>
    ELSE IF b[Len(b)] = 0 THEN SubSeq(b, 1, Len(b) - 1) \o <<1>>
    ELSE IncBits(SubSeq(b, 1, Len(b) - 1)) \o <<0>>

\* round-to-nearest, ties-to-even, of the exact value b * 2^e (b starts with 1;
\* `sticky` says that a non-zero remainder lies below the last bit of b)
RoundToDouble(b, e, sticky) ==
    IF Len(b) <= Mantissa
    THEN [bits |-> b \o Zeros(Mantissa - Len(b)), exp |-> e - (Mantissa - Len(b))]
    ELSE LET keep == SubSeq(b, 1, Mantissa)
             rest == SubSeq(b, Mantissa + 1, Len(b))
             below == sticky \/ \E i \in 2..Len(rest) : rest[i] = 1
             up == rest[1] = 1 /\ (below \/ keep[Mantissa] = 1)
             e2 == e + Len(rest)
             inc == IncBits(keep)
         IN  IF ~up THEN [bits |-> keep, exp |-> e2]
             ELSE IF Len(inc) = Mantissa THEN [bits |-> inc, exp |-> e2]
             ELSE [bits |-> SubSeq(inc, 1, Mantissa), exp |-> e2 + 1]

\* the least z with c * 2^z >= n, for 1 <= c <= n
RECURSIVE Shift(_, _)
Shift(c, n) == IF c >= n THEN 0 ELSE 1 + Shift(2 * c, n)

RECURSIVE Pow2(_)
Pow2(k) == IF k = 0 THEN 1 ELSE 2 * Pow2(k - 1)

\* the double c / n for integers 0 <= c <= n, n > 0
FDiv(c, n) ==
    IF c = 0 THEN FZero
    ELSE LET z == Shift(c, n)
             r == c * Pow2(z) - n
             digits == <<1>> \o DivDigits(r, n, Mantissa)
         IN  RoundToDouble(digits, 0 - z - Mantissa, DivRest(r, n, Mantissa) # 0)

\* sum of two bit strings given least significant bit first
RECURSIVE AddLsb(_, _, _)
AddLsb(a, b, carry) ==
    IF a = << >> /\ b = << >> THEN (IF carry = 1 THEN <<1>> ELSE << >>)
    ELSE LET x == IF a = << >> THEN 0 ELSE Head(a)
             y == IF b = << >> THEN 0 ELSE Head(b)
             s == x + y + carry
         IN  <<s % 2>> \o AddLsb(IF a = << >> THEN << >> ELSE Tail(a),
                                 IF b = << >> THEN << >> ELSE Tail(b), s \div 2)

Reverse(s) == [i \in 1..Len(s) |-> s[Len(s) + 1 - i]]

\* the double x * 100: the exact product (100 = 64 + 32 + 4), then rounded
FMul100(x) ==
    IF x = FZero THEN FZero
    ELSE LET l == Reverse(x.bits)
             sum == AddLsb(Zeros(6) \o l, AddLsb(Zeros(5) \o l, Zeros(2) \o l, 0), 0)
         IN  RoundToDouble(Reverse(sum), x.exp, FALSE)

RECURSIVE BitsToInt(_)
BitsToInt(b) ==
    IF b = << >> THEN 0 ELSE 2 * BitsToInt(SubSeq(b, 1, Len(b) - 1)) + b[Len(b)]

\* Math.round of a double 0 <= x < 2^31: the nearest integer, halves upward
MathRound(x) ==
    IF x = FZero THEN 0
    ELSE LET whole == Mantissa + x.exp
         IN  IF whole < 0 THEN 0
             ELSE BitsToInt(SubSeq(x.bits, 1, whole)) + x.bits[whole + 1]

\* ------------------------------------------------------------ derived views
Pinned(s) == SelectSeq(s, LAMBDA n : n.pinned)

\* highlights without the fallback to the first two notes
NoteHighlights_NoFallback(ns) == Pinned(ns)

NoteHighlights(ns) ==
    LET pinned == Pinned(ns)
    IN  IF Len(pinned) # 0 THEN pinned ELSE Slice0(ns, 2)

noteHighlights == NoteHighlights(notes)

\* open tasks that do not look at the done flag
OpenTasks_IgnoresDone(ts) == ts

OpenTasks(ts) == SelectSeq(ts, LAMBDA t : ~t.done)

openTasks == OpenTasks(tasks)

CompletedTasks(ts) == Len(SelectSeq(ts, LAMBDA t : t.done))

\* Math.round((completedTasks / tasks.length) * 100), in double arithmetic
ProgressScore(ts) ==
    IF Len(ts) = 0 THEN 0
    ELSE MathRound(FMul100(FDiv(CompletedTasks(ts), Len(ts))))

progressScore == ProgressScore(tasks)

\* the useMemo body of nextReminder, evaluated at time t
ComputeNextReminder(rs, t) ==
    LET upcoming == SelectSeq(rs, LAMBDA r : r.scheduledFor >= t)
        key == [r \in Range(upcoming) |-> r.scheduledFor]
        sorted == StableSort(upcoming, key)
    IN  Slice0(sorted, 1)

\* -------------------------------------------------------------- lifecycle
NoCells == [k \in Keys |-> << >>]

Init ==
    /\ mounted = FALSE
    /\ storage = [k \in Keys |-> Absent]
    /\ cells = NoCells
    /\ filesAtMount = << >>
    /\ nextReminder = << >>
    /\ isThinking = FALSE
    /\ timers = << >>
    /\ now = 0
    /\ uidCount = 0
    /\ urlCount = 0
    /\ revoked = EmptyBag
    /\ lastOp = [event |-> "init", input |-> 0, repeated |-> FALSE]

\* First render of Home: every cell initialises from storage or its default;
\* the []-deps effect captures this render's `files`; the memo is computed.
Mount ==
    /\ ~mounted
    /\ mounted' = TRUE
    /\ cells' = [k \in Keys |-> LoadOrDefault(storage[k], DefaultOf(k))]
    /\ filesAtMount' = files'
    /\ nextReminder' = ComputeNextReminder(reminders', now)
    /\ isThinking' = FALSE
    /\ lastOp' = Op("mount", 0)
    /\ UNCHANGED <<storage, timers, now, uidCount, urlCount, revoked>>

\* files.forEach(file => file.previewUrl && revoke) over the captured array
RECURSIVE SweepBag(_)
SweepBag(fs) ==
    IF fs = << >> THEN EmptyBag
    ELSE (IF Head(fs).previewUrl # << >>
          THEN SetToBag({Head(fs).previewUrl[1]}) ELSE EmptyBag)
         (+) SweepBag(Tail(fs))

\* bound on the revokeObjectURL log: no URL is recorded more than MaxRevokes times
WithinRevokeBound(b) == \A u \in BagToSet(b) : CopiesIn(u, b) <= MaxRevokes

\* Home unmounts: the effect cleanup runs and the component state is gone;
\* pending timers are not cleared, their closures belong to a dead instance
\* whose chat cell stays at its last value.
Unmount ==
    /\ mounted
    /\ mounted' = FALSE
    /\ revoked' = revoked (+) SweepBag(filesAtMount)
    /\ WithinRevokeBound(revoked')
    /\ cells' = NoCells
    /\ filesAtMount' = << >>
    /\ nextReminder' = << >>
    /\ isThinking' = FALSE
    /\ timers' = [i \in 1..Len(timers) |->
                    IF timers[i].alive
                    THEN [timers[i] EXCEPT !.alive = FALSE, !.chat = chatMessages]
                    ELSE timers[i]]
    /\ lastOp' = Op("unmount", 0)
    /\ UNCHANGED <<storage, now, uidCount, urlCount>>

Tick ==
    /\ now < MaxTime
    /\ now' = now + 1
    /\ lastOp' = Op("tick", 0)
    /\ UNCHANGED <<mounted, storage, cells, filesAtMount, nextReminder, isThinking,
                   timers, uidCount, urlCount, revoked>>

\* identifiers a handler may be invoked with: every uid handed out so far
Ids == 1..uidCount

\* identifiers of the records a collection shows (the buttons the page renders)
IdsOf(s) == {s[i].id : i \in 1..Len(s)}

\* ------------------------------------------------------------------ notes
FormTitles == {Empty, Blank, TitleAPadded}
NoteContents == {Empty, Blank, BodyB}

\* addNote numbering its records by the length of the collection
AddNoteWith_IdFromLength(title, content) ==
    /\ mounted
    /\ lastOp' = Op("addNote", <<title, content>>)
    /\ IF ~Truthy(Trim(title)) /\ ~Truthy(Trim(content))
       THEN UNCHANGED <<cells, storage, uidCount>>
       ELSE /\ uidCount < MaxUid
            /\ uidCount' = uidCount + 1
            /\ SetCell(KeyNotes, <<[id |-> Len(notes) + 1,
                           title |-> IF Truthy(Trim(title)) THEN Trim(title)
                                     ELSE UntitledNote,
                           content |-> Trim(content),
                           pinned |-> FALSE]>> \o notes)
    /\ UNCHANGED <<mounted, filesAtMount, nextReminder, isThinking, timers, now,
                   urlCount, revoked>>

\* addNote with the draft (title, content) in the form at submit time
AddNoteWith(title, content) ==
    /\ mounted
    /\ lastOp' = Op("addNote", <<title, content>>)
    /\ IF ~Truthy(Trim(title)) /\ ~Truthy(Trim(content))
       THEN UNCHANGED <<cells, storage, uidCount>>
       ELSE /\ uidCount < MaxUid
            /\ uidCount' = uidCount + 1
            /\ SetCell(KeyNotes, <<[id |-> Uid(uidCount + 1),
                           title |-> IF Truthy(Trim(title)) THEN Trim(title)
                                     ELSE UntitledNote,
                           content |-> Trim(content),
                           pinned |-> FALSE]>> \o notes)
    /\ UNCHANGED <<mounted, filesAtMount, nextReminder, isThinking, timers, now,
                   urlCount, revoked>>

AddNote == \E title \in FormTitles, content \in NoteContents : AddNoteWith(title, content)

ArchiveNoteWith(id) ==
    /\ mounted
    /\ lastOp' = Op("archiveNote", id)
    /\ SetCell(KeyNotes, RemoveById(notes, id))
    /\ UNCHANGED <<mounted, filesAtMount, nextReminder, isThinking, timers, now,
                   uidCount, urlCount, revoked>>

ArchiveNote == \E id \in Ids : ArchiveNoteWith(id)

\* prev.map(x => x.id === id ? {...x, [field]: !x[field]} : x)
FlipPinned(s, id) ==
    [i \in 1..Len(s) |-> IF s[i].id = id
                         THEN [s[i] EXCEPT !.pinned = ~s[i].pinned] ELSE s[i]]

\* .sort((a, b) => Number(b.pinned) - Number(a.pinned))
SortPinnedFirst(s) ==
    StableSort(s, [n \in Range(s) |-> IF n.pinned THEN 0 ELSE 1])

TogglePinWith(id) ==
    /\ mounted
    /\ lastOp' = Op("togglePin", id)
    /\ SetCell(KeyNotes, SortPinnedFirst(FlipPinned(notes, id)))
    /\ UNCHANGED <<mounted, filesAtMount, nextReminder, isThinking, timers, now,
                   uidCount, urlCount, revoked>>

TogglePin == \E id \in Ids : TogglePinWith(id)

\* ------------------------------------------------------------------ tasks
TaskDueDates == {<< >>, <<MaxTime>>}

\* addTask without its blank-title check
AddTaskWith_NoValidation(title, dueDate) ==
    /\ mounted
    /\ lastOp' = Op("addTask", <<title, dueDate>>)
    /\ uidCount < MaxUid
    /\ uidCount' = uidCount + 1
    /\ SetCell(KeyTasks, <<[id |-> Uid(uidCount + 1),
                   title |-> Trim(title),
                   done |-> FALSE,
                   dueDate |-> dueDate]>> \o tasks)
    /\ UNCHANGED <<mounted, filesAtMount, nextReminder, isThinking, timers, now,
                   urlCount, revoked>>

\* addTask with the draft (title, dueDate); dueDate '' becomes undefined
AddTaskWith(title, dueDate) ==
    /\ mounted
    /\ lastOp' = Op("addTask", <<title, dueDate>>)
    /\ IF ~Truthy(Trim(title))
       THEN UNCHANGED <<cells, storage, uidCount>>
       ELSE /\ uidCount < MaxUid
            /\ uidCount' = uidCount + 1
            /\ SetCell(KeyTasks, <<[id |-> Uid(uidCount + 1),
                           title |-> Trim(title),
                           done |-> FALSE,
                           dueDate |-> dueDate]>> \o tasks)
    /\ UNCHANGED <<mounted, filesAtMount, nextReminder, isThinking, timers, now,
                   urlCount, revoked>>

AddTask == \E title \in FormTitles, dueDate \in TaskDueDates : AddTaskWith(title, dueDate)

\* a toggle that only ever sets the flag
FlipDone_SetsDone(s, id) ==
    [i \in 1..Len(s) |-> IF s[i].id = id THEN [s[i] EXCEPT !.done = TRUE] ELSE s[i]]

FlipDone(s, id) ==
    [i \in 1..Len(s) |-> IF s[i].id = id
                         THEN [s[i] EXCEPT !.done = ~s[i].done] ELSE s[i]]

ToggleTaskWith(id) ==
    /\ mounted
    /\ lastOp' = Op("toggleTask", id)
    /\ SetCell(KeyTasks, FlipDone(tasks, id))
    /\ UNCHANGED <<mounted, filesAtMount, nextReminder, isThinking, timers, now,
                   uidCount, urlCount, revoked>>

ToggleTask == \E id \in Ids : ToggleTaskWith(id)

RemoveTaskWith(id) ==
    /\ mounted
    /\ lastOp' = Op("removeTask", id)
    /\ SetCell(KeyTasks, RemoveById(tasks, id))
    /\ UNCHANGED <<mounted, filesAtMount, nextReminder, isThinking, timers, now,
                   uidCount, urlCount, revoked>>

RemoveTask == \E id \in Ids : RemoveTaskWith(id)

\* -------------------------------------------------------------- reminders
Hour == 1
ReminderTimes == {<< >>} \cup {<<t>> : t \in 0..MaxTime}

\* addReminder with the draft (title, scheduledFor); '' means one hour from now.
\* The render that follows recomputes the nextReminder memo (reminders changed).
AddReminderWith(title, scheduledFor) ==
    /\ mounted
    /\ lastOp' = Op("addReminder", <<title, scheduledFor>>)
    /\ IF ~Truthy(Trim(title))
       THEN UNCHANGED <<cells, nextReminder, storage, uidCount>>
       ELSE /\ uidCount < MaxUid
            /\ uidCount' = uidCount + 1
            /\ SetCell(KeyReminders, <<[id |-> Uid(uidCount + 1),
                               title |-> Trim(title),
                               scheduledFor |-> IF scheduledFor # << >>
                                                THEN scheduledFor[1]
                                                ELSE now + Hour,
                               channel |-> "mobile"]>> \o reminders)
            /\ nextReminder' = ComputeNextReminder(reminders', now)
    /\ UNCHANGED <<mounted, filesAtMount, isThinking, timers, now, urlCount, revoked>>

AddReminder ==
    \E title \in FormTitles, scheduledFor \in ReminderTimes :
        AddReminderWith(title, scheduledFor)

RemoveReminderWith(id) ==
    /\ mounted
    /\ lastOp' = Op("removeReminder", id)
    /\ SetCell(KeyReminders, RemoveById(reminders, id))
    /\ nextReminder' = ComputeNextReminder(reminders', now)
    /\ UNCHANGED <<mounted, filesAtMount, isThinking, timers, now, uidCount,
                   urlCount, revoked>>

RemoveReminder == \E id \in Ids : RemoveReminderWith(id)

\* ------------------------------------------------------------------ files
\* Array.from(input.files).map(...): k-th selected file gets the k-th uid and URL
UploadEntries(n, uid0, url0) ==
    [k \in 1..n |-> [id |-> Uid(uid0 + k), name |-> FileName, previewUrl |-> <<url0 + k>>]]

\* handleFileUpload with n files selected in the input
HandleFileUploadWith(n) ==
    /\ mounted
    /\ lastOp' = Op("handleFileUpload", n)
    /\ IF n = 0
       THEN UNCHANGED <<cells, storage, uidCount, urlCount>>
       ELSE /\ uidCount + n <= MaxUid
            /\ uidCount' = uidCount + n
            /\ urlCount' = urlCount + n
            /\ SetCell(KeyFiles, UploadEntries(n, uidCount, urlCount) \o files)
    /\ UNCHANGED <<mounted, filesAtMount, nextReminder, isThinking, timers, now,
                   revoked>>

HandleFileUpload == \E n \in 0..MaxUpload : HandleFileUploadWith(n)

\* the revokeObjectURL calls of removeFile's updater: entry?.previewUrl
RemoveFileRevokes(prev, id) ==
    LET entry == FindById(prev, id)
    IN  IF entry # << >> /\ entry[1].previewUrl # << >>
        THEN SetToBag({entry[1].previewUrl[1]}) ELSE EmptyBag

\* removeFile without its filter: the record stays in the collection
RemoveFileWith_KeepsRecord(id) ==
    /\ mounted
    /\ lastOp' = Op("removeFile", id)
    /\ revoked' = revoked (+) RemoveFileRevokes(files, id)
    /\ WithinRevokeBound(revoked')
    /\ SetCell(KeyFiles, files)
    /\ UNCHANGED <<mounted, filesAtMount, nextReminder, isThinking, timers, now,
                   uidCount, urlCount>>

RemoveFileWith(id) ==
    /\ mounted
    /\ lastOp' = Op("removeFile", id)
    /\ revoked' = revoked (+) RemoveFileRevokes(files, id)
    /\ WithinRevokeBound(revoked')
    /\ SetCell(KeyFiles, RemoveById(files, id))
    /\ UNCHANGED <<mounted, filesAtMount, nextReminder, isThinking, timers, now,
                   uidCount, urlCount>>

RemoveFile == \E id \in Ids : RemoveFileWith(id)

\* ------------------------------------------------------------------- chat
\* String.prototype.toLowerCase on the letters the prompts use
LowerChar(c) ==
    CASE c = "N" -> "n" [] c = "T" -> "t" [] c = "F" -> "f" [] c = "R" -> "r"
      [] c = "S" -> "s" [] c = "U" -> "u" [] OTHER -> c

ToLowerCase(s) == [i \in 1..Len(s) |-> LowerChar(s[i])]

\* String.prototype.includes
Includes(s, w) ==
    \E i \in 1..(Len(s) - Len(w) + 1) : SubSeq(s, i, i + Len(w) - 1) = w

KwNote == <<"n", "o", "t", "e">>
KwTask == <<"t", "a", "s", "k">>
KwTodo == <<"t", "o", "d", "o">>
KwRemind == <<"r", "e", "m", "i", "n", "d">>
KwSchedule == <<"s", "c", "h", "e", "d", "u", "l", "e">>
KwFile == <<"f", "i", "l", "e">>

\* bubbleResponses without its greeting lines
PoolLines_NoGreeting(group) ==
    IF group = "greeting" THEN << >>
    ELSE <<[kind |-> "pool", ref |-> <<group, "1">>, extra |-> << >>],
           [kind |-> "pool", ref |-> <<group, "2">>, extra |-> << >>]>>

\* bubbleResponses: each group has two lines, named by group and position
PoolLines(group) == <<[kind |-> "pool", ref |-> <<group, "1">>, extra |-> << >>],
                      [kind |-> "pool", ref |-> <<group, "2">>, extra |-> << >>]>>

Reply(kind, ref, extra) == [kind |-> kind, ref |-> ref, extra |-> extra]

\* formatDateTime of lib/utils: a non-empty text that shows the time
FormatDateTime(t) == <<"@", t>>

\* what a render's craftAssistantReply closes over
RenderEnv ==
    [notes |-> notes, openTasks |-> openTasks, nextReminder |-> nextReminder,
     noteHighlights |-> noteHighlights, files |-> files]

\* a responder that looks for "task"/"todo" before "note"
CraftAssistantReply_TaskBeforeNote(prompt, env) ==
    LET lower == ToLowerCase(prompt)
        responses == PoolLines("greeting")
                     \o (IF Len(env.openTasks) # 0 THEN PoolLines("tasks") ELSE << >>)
                     \o (IF Len(env.noteHighlights) # 0 THEN PoolLines("notes") ELSE << >>)
    IN  IF Includes(lower, KwTask) \/ Includes(lower, KwTodo)
        THEN IF Len(env.openTasks) # 0
             THEN {Reply("task", env.openTasks[1].title, << >>)}
             ELSE {Reply("inboxZero", << >>, << >>)}
        ELSE IF Includes(lower, KwNote) /\ env.notes # << >>
        THEN {Reply("note", env.notes[1].title, Slice0(env.notes[1].content, 120))}
        ELSE Range(responses)

\* craftAssistantReply: the set of replies Math.random can select
CraftAssistantReply(prompt, env) ==
    LET lower == ToLowerCase(prompt)
        responses == PoolLines("greeting")
                     \o (IF Len(env.openTasks) # 0 THEN PoolLines("tasks") ELSE << >>)
                     \o (IF Len(env.noteHighlights) # 0 THEN PoolLines("notes") ELSE << >>)
        \* responses[Math.floor(Math.random() * responses.length)] ?? fallback
        pool == IF responses = << >> THEN {Reply("synced", << >>, << >>)}
                ELSE {responses[i] : i \in 1..Len(responses)}
    IN  IF Includes(lower, KwNote) /\ env.notes # << >>
        THEN {Reply("note", env.notes[1].title, Slice0(env.notes[1].content, 120))}
        ELSE IF Includes(lower, KwTask) \/ Includes(lower, KwTodo)
        THEN IF Len(env.openTasks) # 0
             THEN LET next == env.openTasks[1]
                      due == IF next.dueDate # << >>
                             THEN FormatDateTime(next.dueDate[1]) ELSE << >>
                  IN  {Reply("task", next.title, due)}
             ELSE {Reply("inboxZero", << >>, << >>)}
        ELSE IF Includes(lower, KwRemind) \/ Includes(lower, KwSchedule)
        THEN IF env.nextReminder # << >>
             THEN {Reply("reminder", env.nextReminder[1].title,
                         <<env.nextReminder[1].channel>>
                         \o FormatDateTime(env.nextReminder[1].scheduledFor))}
             ELSE {Reply("reminderFree", << >>, << >>)}
        ELSE IF Includes(lower, KwFile) /\ env.files # << >>
        THEN {Reply("file", env.files[1].name, << >>)}
        ELSE pool

Prompts == {Blank, Hi, NoteWord, TaskWord}

TodoWord == <<"T", "o", "d", "o">>
RemindWord == <<"r", "e", "m", "i", "n", "d">>
ScheduleWord == <<"S", "c", "h", "e", "d", "u", "l", "e">>
FileWord == <<"f", "i", "l", "e">>

\* one-keyword inputs, and inputs in which the keyword of a later branch
\* stands before the keyword of an earlier one
KeywordPrompts ==
    {NoteWord, TaskWord, TodoWord, RemindWord, ScheduleWord, FileWord,
     TaskWord \o Blank \o NoteWord, FileWord \o Blank \o NoteWord,
     RemindWord \o Blank \o TodoWord, FileWord \o Blank \o TaskWord,
     FileWord \o Blank \o ScheduleWord}

\* inputs without any keyword
PlainPrompts == {Hi, <<"n", "o", "t">>, <<"t", "o", " ", "d", "o">>}

ChatPrompts == KeywordPrompts \cup PlainPrompts

\* sendMessage without the test of the thinking flag
SendMessageWith_IgnoresThinking(pendingMessage) ==
    /\ mounted
    /\ lastOp' = Op("sendMessage", pendingMessage)
    /\ LET content == Trim(pendingMessage)
       IN  IF ~Truthy(content)
           THEN UNCHANGED <<cells, storage, isThinking, timers, uidCount>>
           ELSE /\ uidCount < MaxUid
                /\ uidCount' = uidCount + 1
                /\ SetCell(KeyChat, Append(chatMessages,
                       [id |-> Uid(uidCount + 1), role |-> "user", content |-> content]))
                /\ isThinking' = TRUE
                /\ timers' = Append(timers,
                       [content |-> content, env |-> RenderEnv, alive |-> TRUE,
                        chat |-> << >>])
    /\ UNCHANGED <<mounted, filesAtMount, nextReminder, now, urlCount, revoked>>

\* sendMessage with the text in the chat input; schedules the reply callback,
\* whose closure is this render's craftAssistantReply
SendMessageWith(pendingMessage) ==
    /\ mounted
    /\ lastOp' = Op("sendMessage", pendingMessage)
    /\ LET content == Trim(pendingMessage)
       IN  IF ~Truthy(content) \/ isThinking
           THEN UNCHANGED <<cells, storage, isThinking, timers, uidCount>>
           ELSE /\ uidCount < MaxUid
                /\ uidCount' = uidCount + 1
                /\ SetCell(KeyChat, Append(chatMessages,
                       [id |-> Uid(uidCount + 1), role |-> "user", content |-> content]))
                /\ isThinking' = TRUE
                /\ timers' = Append(timers,
                       [content |-> content, env |-> RenderEnv, alive |-> TRUE,
                        chat |-> << >>])
    /\ UNCHANGED <<mounted, filesAtMount, nextReminder, now, urlCount, revoked>>

SendMessage == \E pendingMessage \in Prompts : SendMessageWith(pendingMessage)

\* a callback that reads the stores as they are when it runs
TimerFire_ReadsCurrentRender ==
    /\ timers # << >>
    /\ lastOp' = Op("timer", 0)
    /\ timers' = Tail(timers)
    /\ uidCount' = uidCount + 1
    /\ LET t == Head(timers)
       IN  \E text \in CraftAssistantReply(t.content, RenderEnv) :
             LET reply == [id |-> Uid(uidCount + 1), role |-> "assistant", content |-> text]
             IN  IF t.alive
                 THEN /\ SetCell(KeyChat, Append(chatMessages, reply))
                      /\ isThinking' = FALSE
                 ELSE /\ UNCHANGED <<cells, isThinking>>
                      /\ \/ UNCHANGED storage
                         \/ storage' = [storage EXCEPT
                                ![KeyChat] = Stringify(Append(t.chat, reply))]
    /\ UNCHANGED <<mounted, filesAtMount, nextReminder, now, urlCount, revoked>>

\* the setTimeout callback: equal delays fire in scheduling order.  A callback
\* whose Home instance was unmounted still runs: setIsThinking acts on a
\* dismantled instance and changes nothing, and the dismantled chat cell's
\* setter either changes nothing as well or still writes its update function's
\* result (on that instance's last value) to storage.
TimerFire ==
    /\ timers # << >>
    /\ lastOp' = Op("timer", 0)
    /\ timers' = Tail(timers)
    /\ uidCount' = uidCount + 1
    /\ LET t == Head(timers)
       IN  \E text \in CraftAssistantReply(t.content, t.env) :
             LET reply == [id |-> Uid(uidCount + 1), role |-> "assistant", content |-> text]
             IN  IF t.alive
                 THEN /\ SetCell(KeyChat, Append(chatMessages, reply))
                      /\ isThinking' = FALSE
                 ELSE /\ UNCHANGED <<cells, isThinking>>
                      /\ \/ UNCHANGED storage
                         \/ storage' = [storage EXCEPT
                                ![KeyChat] = Stringify(Append(t.chat, reply))]
    /\ UNCHANGED <<mounted, filesAtMount, nextReminder, now, urlCount, revoked>>

NextNotes == Mount \/ Unmount \/ AddNote \/ ArchiveNote \/ TogglePin
SpecNotes == Init /\ [][NextNotes]_vars

NextTasks == Mount \/ Unmount \/ AddTask \/ ToggleTask \/ RemoveTask
SpecTasks == Init /\ [][NextTasks]_vars

NextReminders == Mount \/ Unmount \/ Tick \/ AddReminder \/ RemoveReminder
SpecReminders == Init /\ [][NextReminders]_vars

NextFiles == Mount \/ Unmount \/ HandleFileUpload \/ RemoveFile
SpecFiles == Init /\ [][NextFiles]_vars

\* a task list kept over earlier sessions: n tasks, the first c of them done
StoredTasks(n, c) ==
    [i \in 1..n |-> [id |-> Uid(i), title |-> TitleA, done |-> i <= c, dueDate |-> << >>]]

InitMomentum ==
    /\ mounted = FALSE
    /\ \E n \in 0..MaxTasks : \E c \in 0..n :
         /\ storage = [k \in Keys |-> IF k = KeyTasks THEN Stringify(StoredTasks(n, c))
                                                     ELSE Absent]
         /\ uidCount = n
    /\ cells = NoCells
    /\ filesAtMount = << >>
    /\ nextReminder = << >>
    /\ isThinking = FALSE
    /\ timers = << >>
    /\ now = 0
    /\ urlCount = 0
    /\ revoked = EmptyBag
    /\ lastOp = [event |-> "init", input |-> 0, repeated |-> FALSE]

\* a session over a long task list: a task is added, the first open task is
\* checked off, the task at the top is removed
NextMomentum ==
    \/ Mount
    \/ AddTaskWith(TitleAPadded, << >>)
    \/ \E id \in {openTasks[i].id : i \in {1} \cap DOMAIN openTasks} : ToggleTaskWith(id)
    \/ \E id \in {tasks[i].id : i \in {1} \cap DOMAIN tasks} : RemoveTaskWith(id)
SpecMomentum == InitMomentum /\ [][NextMomentum]_vars

\* the renders the responder can be asked in: notes (pinned or not), tasks
\* (open or done, with or without a due date), a reminder, a file
NextResponder ==
    \/ Mount
    \/ AddNoteWith(TitleAPadded, BodyB)
    \/ \E id \in IdsOf(notes) : TogglePinWith(id)
    \/ \E dueDate \in TaskDueDates : AddTaskWith(TitleAPadded, dueDate)
    \/ \E id \in IdsOf(tasks) : ToggleTaskWith(id)
    \/ AddReminderWith(TitleAPadded, << >>)
    \/ HandleFileUploadWith(1)
SpecResponder == Init /\ [][NextResponder]_vars

\* the chat with the stores changing under it: a note or a task is added, a
\* task is checked off, while messages are sent and reply timers fire
NextChat ==
    \/ Mount \/ Unmount
    \/ SendMessage
    \/ TimerFire
    \/ AddNoteWith(TitleAPadded, BodyB)
    \/ AddTaskWith(TitleAPadded, << >>)
    \/ \E id \in IdsOf(tasks) : ToggleTaskWith(id)
SpecChat == Init /\ [][NextChat]_vars

\* a scheduled setTimeout callback is eventually run by the event loop
SpecChatLive == Init /\ [][NextChat]_vars /\ WF_vars(TimerFire)

\* the four forms alone, with every draft title and content (the reminder
\* draft's date left empty: no validation reads it)
NextForms ==
    \/ Mount \/ AddNote \/ AddTask
    \/ \E title \in FormTitles : AddReminderWith(title, << >>)
    \/ HandleFileUpload
SpecForms == Init /\ [][NextForms]_vars

\* a first run may find nothing or unparseable text under the keys
InitStored ==
    /\ mounted = FALSE
    /\ storage \in {[k \in Keys |-> Absent], [k \in Keys |-> Malformed]}
    /\ cells = NoCells
    /\ filesAtMount = << >>
    /\ nextReminder = << >>
    /\ isThinking = FALSE
    /\ timers = << >>
    /\ now = 0
    /\ uidCount = 0
    /\ urlCount = 0
    /\ revoked = EmptyBag
    /\ lastOp = [event |-> "init", input |-> 0, repeated |-> FALSE]

\* one session over all five stores together: one valid draft per form,
\* the remove buttons of shown records and the task checkbox
NextStores ==
    \/ Mount
    \/ AddNoteWith(TitleAPadded, BodyB)
    \/ \E id \in IdsOf(notes) : ArchiveNoteWith(id)
    \/ AddTaskWith(TitleAPadded, << >>)
    \/ \E id \in IdsOf(tasks) : ToggleTaskWith(id) \/ RemoveTaskWith(id)
    \/ AddReminderWith(TitleAPadded, << >>)
    \/ \E id \in IdsOf(reminders) : RemoveReminderWith(id)
    \/ HandleFileUploadWith(1)
    \/ \E id \in IdsOf(files) : RemoveFileWith(id)
    \/ SendMessageWith(Hi)
    \/ TimerFire
SpecStores == InitStored /\ [][NextStores]_vars

Next ==
    \/ Mount \/ Unmount \/ Tick
    \/ AddNote \/ ArchiveNote \/ TogglePin
    \/ AddTask \/ ToggleTask \/ RemoveTask
    \/ AddReminder \/ RemoveReminder
    \/ HandleFileUpload \/ RemoveFile
    \/ SendMessage \/ TimerFire
Spec == Init /\ [][Next]_vars

\* ================================================================= claims

\* C1: in every reachable state every pinned note appears before every
\* unpinned note in the notes collection.
C1_PinnedBeforeUnpinned ==
    \A i, j \in 1..Len(notes) : (i < j /\ notes[j].pinned) => notes[i].pinned

\* C2: removeFile(id) on a record with a preview URL revokes that URL exactly
\* once and removes the record; removeFile(id) on an identifier that is not in
\* the collection, in particular a second removeFile(id), changes nothing and
\* revokes nothing.
C2_RemoveFileReleasesOnce ==
    [][lastOp'.event = "removeFile" =>
        LET id == lastOp'.input
            urls == {files[i].previewUrl[1] :
                       i \in {k \in 1..Len(files) :
                                files[k].id = id /\ files[k].previewUrl # << >>}}
        IN  /\ id \notin IdsOf(files')
            /\ \A u \in 1..urlCount :
                 CopiesIn(u, revoked') = CopiesIn(u, revoked) + (IF u \in urls THEN 1 ELSE 0)
            /\ (id \notin IdsOf(files) => files' = files /\ revoked' = revoked)
            /\ (lastOp'.repeated => files' = files /\ revoked' = revoked)
    ]_vars

\* the only file ever uploaded (uid 1, URL 1) was removed, removeFile(1) has
\* just been invoked a second time in a row, and URL 1 was revoked once
C2_Witness ==
    /\ mounted
    /\ lastOp = [event |-> "removeFile", input |-> 1, repeated |-> TRUE]
    /\ uidCount = 1 /\ urlCount = 1
    /\ filesAtMount = << >>
    /\ files = << >>
    /\ revoked = SetToBag({1})

\* C3: at teardown every preview URL acquired by handleFileUpload in this
\* session whose record is still in `files` is revoked by the sweep.
C3_TeardownSweepsUploads ==
    [][(mounted /\ ~mounted') =>
        \A i \in 1..Len(files) :
            (files[i].previewUrl # << >> /\ files[i].id \notin IdsOf(filesAtMount))
            => CopiesIn(files[i].previewUrl[1], revoked')
                 = CopiesIn(files[i].previewUrl[1], revoked) + 1
    ]_vars

\* C4: the teardown sweep revokes no preview URL a second time: a URL that
\* was already revoked and whose record removeFile took out of `files` keeps
\* its number of revocations across the teardown.
C4_NoDoubleRelease ==
    [][(mounted /\ ~mounted') =>
        \A u \in 1..urlCount :
            (/\ CopiesIn(u, revoked) > 0
             /\ \A i \in 1..Len(files) : files[i].previewUrl # <<u>>)
            => CopiesIn(u, revoked') = CopiesIn(u, revoked)
    ]_vars

IsBlank(s) == \A i \in 1..Len(s) : s[i] = " "

\* C8 as stated: a note draft with a blank title or a blank content, a task
\* or reminder draft with a blank title, an upload with no file selected
\* leave the four collections unchanged.
C8_InvalidSubmitIsNoOp_AsStated ==
    [][(\/ lastOp'.event = "addNote"
             /\ (IsBlank(lastOp'.input[1]) \/ IsBlank(lastOp'.input[2]))
        \/ lastOp'.event = "addTask" /\ IsBlank(lastOp'.input[1])
        \/ lastOp'.event = "addReminder" /\ IsBlank(lastOp'.input[1])
        \/ lastOp'.event = "handleFileUpload" /\ lastOp'.input = 0)
       => UNCHANGED <<notes, tasks, reminders, files>>
    ]_vars

\* C8 amended: the note draft is rejected only when title and content are
\* both blank.
C8_InvalidSubmitIsNoOp ==
    [][(\/ lastOp'.event = "addNote"
             /\ (IsBlank(lastOp'.input[1]) /\ IsBlank(lastOp'.input[2]))
        \/ lastOp'.event = "addTask" /\ IsBlank(lastOp'.input[1])
        \/ lastOp'.event = "addReminder" /\ IsBlank(lastOp'.input[1])
        \/ lastOp'.event = "handleFileUpload" /\ lastOp'.input = 0)
       => UNCHANGED <<notes, tasks, reminders, files>>
    ]_vars

\* a task draft with a whitespace title was submitted over a non-empty task
\* collection, which still holds its one task
C8_Witness ==
    /\ mounted
    /\ lastOp.event = "addTask"
    /\ lastOp.input[1] = Blank
    /\ Len(tasks) = 1
    /\ uidCount = 1

\* C9: while Home is mounted, nextReminder is a reminder of the collection
\* scheduled at or after the current time and no later than any other such
\* reminder, and it is empty when no reminder is scheduled at or after the
\* current time.
C9_NextReminderIsNearestFuture ==
    mounted =>
        LET future == {i \in 1..Len(reminders) : reminders[i].scheduledFor >= now}
        IN  IF future = {}
            THEN nextReminder = << >>
            ELSE /\ nextReminder # << >>
                 /\ \E i \in future : nextReminder[1] = reminders[i]
                 /\ \A i \in future :
                      nextReminder[1].scheduledFor <= reminders[i].scheduledFor

\* C10: noteHighlights is the pinned notes in collection order when a note
\* is pinned, and otherwise the first two notes (fewer if there are fewer).
KthOf(S, k) == CHOOSE i \in S : Cardinality({j \in S : j <= i}) = k

C10_NoteHighlights ==
    LET pinnedAt == {i \in 1..Len(notes) : notes[i].pinned}
    IN  IF pinnedAt # {}
        THEN noteHighlights
               = [k \in 1..Cardinality(pinnedAt) |-> notes[KthOf(pinnedAt, k)]]
        ELSE noteHighlights
               = [k \in 1..(IF Len(notes) < 2 THEN Len(notes) ELSE 2) |-> notes[k]]

\* the spec's example: [A, B (pinned), C] has highlights [B]
C10_Witness ==
    /\ Len(notes) = 3
    /\ ~notes[1].pinned /\ notes[2].pinned /\ ~notes[3].pinned
    /\ noteHighlights = <<notes[2]>>

\* the fallback: three unpinned notes have the first two as highlights
C10_WitnessFallback ==
    /\ Len(notes) = 3
    /\ \A i \in 1..3 : ~notes[i].pinned
    /\ noteHighlights = <<notes[1], notes[2]>>

\* C11: progressScore is an integer from 0 to 100, is 0 for an empty task
\* collection, and otherwise is completed / total * 100 rounded to the nearest
\* integer (halves upward, as Math.round rounds), completed being the number
\* of tasks with done set.
C11_MomentumScore ==
    mounted =>
        LET total == Len(tasks)
            completed == Cardinality({i \in 1..total : tasks[i].done})
        IN  /\ progressScore \in 0..100
            /\ total = 0 => progressScore = 0
            /\ total > 0 =>
                 /\ 2 * total * progressScore - total <= 200 * completed
                 /\ 200 * completed < 2 * total * progressScore + total

\* the branch a reply comes from
Branch(r) ==
    CASE r.kind = "note" -> "note"
      [] r.kind \in {"task", "inboxZero"} -> "task"
      [] r.kind \in {"reminder", "reminderFree"} -> "remind"
      [] r.kind = "file" -> "file"
      [] r.kind \in {"pool", "synced"} -> "pool"

Has(p, words) == \E w \in words : Includes(ToLowerCase(p), w)

\* C12 as stated: the reply to any input comes from the branch of the first
\* keyword group, in the order note, task/todo, remind/schedule, file, that
\* occurs in the case-folded input, and from the pool when none occurs.
C12_KeywordPriority_AsStated ==
    mounted => \A p \in ChatPrompts : \A r \in CraftAssistantReply(p, RenderEnv) :
        Branch(r) = IF Has(p, {KwNote}) THEN "note"
                    ELSE IF Has(p, {KwTask, KwTodo}) THEN "task"
                    ELSE IF Has(p, {KwRemind, KwSchedule}) THEN "remind"
                    ELSE IF Has(p, {KwFile}) THEN "file"
                    ELSE "pool"

\* C12 amended: the same, except that a "note" keyword counts only while the
\* notes collection is non-empty and a "file" keyword only while the files
\* collection is non-empty.
C12_KeywordPriority ==
    mounted => \A p \in ChatPrompts : \A r \in CraftAssistantReply(p, RenderEnv) :
        Branch(r) = IF Has(p, {KwNote}) /\ notes # << >> THEN "note"
                    ELSE IF Has(p, {KwTask, KwTodo}) THEN "task"
                    ELSE IF Has(p, {KwRemind, KwSchedule}) THEN "remind"
                    ELSE IF Has(p, {KwFile}) /\ files # << >> THEN "file"
                    ELSE "pool"

\* "file Note" is answered from the note branch while a note and a file exist
C12_Witness ==
    /\ mounted
    /\ notes # << >> /\ files # << >>
    /\ \A r \in CraftAssistantReply(FileWord \o Blank \o NoteWord, RenderEnv) :
         r.kind = "note"

\* C13: while the notes collection is non-empty, the reply to an input
\* containing "note" references the note created last among those in the
\* collection (uid hands out increasing tokens, so that is the greatest id):
\* its title and the start of its content.
C13_ReplyReferencesLatestNote ==
    (mounted /\ notes # << >>) =>
        LET latest == CHOOSE n \in Range(notes) : \A o \in Range(notes) : o.id <= n.id
        IN  \A r \in CraftAssistantReply(NoteWord, RenderEnv) :
                /\ r.kind = "note"
                /\ r.ref = latest.title
                /\ r.extra = Slice0(latest.content, 120)

\* C14: for an input with "task" or "todo" and without "note", the reply is
\* the inbox-zero message exactly when no task is open; otherwise it names
\* the first task in collection order that is not done, with that task's
\* rendered due date exactly when the task has one; it is never a pool line.
C14_TaskReply ==
    mounted => \A p \in ChatPrompts :
        (Has(p, {KwTask, KwTodo}) /\ ~Has(p, {KwNote})) =>
            LET open == {i \in 1..Len(tasks) : ~tasks[i].done}
            IN  \A r \in CraftAssistantReply(p, RenderEnv) :
                    IF open = {}
                    THEN r = Reply("inboxZero", << >>, << >>)
                    ELSE LET first == tasks[CHOOSE i \in open : \A j \in open : i <= j]
                         IN  /\ r.kind = "task"
                             /\ r.ref = first.title
                             /\ (r.extra # << >>) <=> (first.dueDate # << >>)
                             /\ first.dueDate # << >>
                                  => r.extra = FormatDateTime(first.dueDate[1])

\* a done task stands before an open task that has a due date, and "task" is
\* answered with the open task and its rendered due date
C14_Witness ==
    /\ mounted
    /\ Len(tasks) = 2
    /\ tasks[1].done /\ ~tasks[2].done
    /\ tasks[1].dueDate = << >> /\ tasks[2].dueDate # << >>
    /\ CraftAssistantReply(TaskWord, RenderEnv)
         = {Reply("task", tasks[2].title, FormatDateTime(tasks[2].dueDate[1]))}

\* every task is done and "Todo" is answered with the inbox-zero message
C14_WitnessInboxZero ==
    /\ mounted
    /\ tasks # << >>
    /\ \A i \in 1..Len(tasks) : tasks[i].done
    /\ CraftAssistantReply(TodoWord, RenderEnv) = {Reply("inboxZero", << >>, << >>)}

\* C15: for an input without any keyword there is a reply, every possible
\* reply is a non-empty line of the bubbleResponses pool, and the groups the
\* reply can come from are: greeting always, tasks exactly when a task is
\* open, notes exactly when noteHighlights is non-empty.
C15_GenericPool ==
    mounted => \A p \in ChatPrompts :
        ~Has(p, {KwNote, KwTask, KwTodo, KwRemind, KwSchedule, KwFile}) =>
            LET replies == CraftAssistantReply(p, RenderEnv)
            IN  /\ replies # {}
                /\ \A r \in replies : r.kind = "pool" /\ r.ref # << >>
                /\ {r.ref[1] : r \in replies}
                     = {"greeting"}
                       \cup (IF \E i \in 1..Len(tasks) : ~tasks[i].done
                             THEN {"tasks"} ELSE {})
                       \cup (IF noteHighlights # << >> THEN {"notes"} ELSE {})

\* with an open task and no note, "hi" can be answered by the two greeting
\* lines and the two task lines
C15_Witness ==
    /\ mounted
    /\ notes = << >>
    /\ \E i \in 1..Len(tasks) : ~tasks[i].done
    /\ Cardinality(CraftAssistantReply(Hi, RenderEnv)) = 4
    /\ Reply("pool", <<"tasks", "1">>, << >>) \in CraftAssistantReply(Hi, RenderEnv)

\* the chat collection as persisted, and its user messages and replies
StoredChat == LoadOrDefault(storage[KeyChat], defaultChat)

UserCount == Len(SelectSeq(StoredChat, LAMBDA m : m.role = "user"))

ReplyCount ==
    Len(SelectSeq(StoredChat, LAMBDA m : m.role = "assistant" /\ m.id # ChatWelcomeId))

\* C16: every message sendMessage accepted is eventually answered: once the
\* chat collection holds n user messages it eventually holds n replies with
\* the thinking flag cleared, whether or not Home was unmounted in between;
\* and there is never more than one reply per user message.
C16_ReplyEventuallyAppended ==
    /\ \A n \in 1..MaxUid : (UserCount >= n) ~> (ReplyCount >= n /\ ~isThinking)
    /\ [](ReplyCount <= UserCount)

\* reply timers scheduled by the mounted Home instance and not yet fired
AliveTimers == {i \in 1..Len(timers) : timers[i].alive}

\* C17: the mounted instance has at most one reply timer pending; sendMessage
\* with the thinking flag set or with blank input changes nothing; a user
\* message is appended only while no timer of the instance is pending and
\* leaves exactly one pending; and the instance's timer appends exactly one
\* assistant message directly after that user message and leaves none pending.
C17_OneTimerPerSession ==
    [][/\ Cardinality(AliveTimers') <= 1
       /\ (lastOp'.event = "sendMessage" /\ (isThinking \/ IsBlank(lastOp'.input)))
            => UNCHANGED <<cells, storage, timers, isThinking>>
       /\ (lastOp'.event = "sendMessage" /\ chatMessages' # chatMessages)
            => /\ AliveTimers = {} /\ Cardinality(AliveTimers') = 1
               /\ Len(chatMessages') = Len(chatMessages) + 1
               /\ chatMessages'[Len(chatMessages')].role = "user"
               /\ SubSeq(chatMessages', 1, Len(chatMessages)) = chatMessages
       /\ (lastOp'.event = "timer" /\ Head(timers).alive)
            => /\ AliveTimers' = {}
               /\ Len(chatMessages') = Len(chatMessages) + 1
               /\ chatMessages'[Len(chatMessages')].role = "assistant"
               /\ SubSeq(chatMessages', 1, Len(chatMessages)) = chatMessages
               /\ chatMessages[Len(chatMessages)].role = "user"
    ]_vars

\* "hi" was sent and accepted, and sent again while the reply was pending:
\* still one user message and one pending timer
C17_Witness ==
    /\ mounted
    /\ lastOp = [event |-> "sendMessage", input |-> Hi, repeated |-> TRUE]
    /\ isThinking
    /\ Cardinality(AliveTimers) = 1
    /\ Len(SelectSeq(chatMessages, LAMBDA m : m.role = "user")) = 1

\* C18: the reply a timer of the mounted instance appends is one that
\* craftAssistantReply gives for the sent text on the notes, open tasks, next
\* reminder, note highlights and files of the render in which sendMessage
\* was invoked, whatever the stores hold when the timer fires.
C18_ReplyFromSendTimeSnapshot ==
    [][/\ (lastOp'.event = "sendMessage" /\ timers' # timers)
            => /\ timers' = Append(timers, timers'[Len(timers')])
               /\ timers'[Len(timers')].env = RenderEnv
               /\ timers'[Len(timers')].content = Trim(lastOp'.input)
       /\ (lastOp'.event \notin {"sendMessage", "timer"} /\ Len(timers') = Len(timers))
            => \A i \in 1..Len(timers) :
                 timers'[i].env = timers[i].env /\ timers'[i].content = timers[i].content
       /\ (lastOp'.event = "timer" /\ Head(timers).alive)
            => chatMessages'[Len(chatMessages')].content
                 \in CraftAssistantReply(Head(timers).content, Head(timers).env)
    ]_vars

\* "Note" was sent while there was no note, a note was added before the timer
\* fired, and the reply is a pool line, not the line about that note
C18_Witness ==
    /\ mounted
    /\ lastOp.event = "timer"
    /\ notes # << >>
    /\ Len(chatMessages) >= 3
    /\ chatMessages[Len(chatMessages) - 1].role = "user"
    /\ chatMessages[Len(chatMessages) - 1].content = NoteWord
    /\ chatMessages[Len(chatMessages)].role = "assistant"
    /\ chatMessages[Len(chatMessages)].content.kind = "pool"

\* C19: toggleTask(id) keeps the length and order of the task collection and
\* every field of every task, except that done is inverted in exactly the
\* tasks whose id is id; toggling the same id once more gives the previous
\* collection back; an id that is not present changes nothing.
C19_ToggleTaskInvolution ==
    [][lastOp'.event = "toggleTask" =>
        LET id == lastOp'.input
        IN  /\ Len(tasks') = Len(tasks)
            /\ \A i \in 1..Len(tasks) :
                 /\ tasks'[i].id = tasks[i].id
                 /\ tasks'[i].title = tasks[i].title
                 /\ tasks'[i].dueDate = tasks[i].dueDate
                 /\ tasks'[i].done = (IF tasks[i].id = id THEN ~tasks[i].done
                                                          ELSE tasks[i].done)
            /\ FlipDone(tasks', id) = tasks
            /\ id \notin IdsOf(tasks) => tasks' = tasks
    ]_vars

\* the second of two tasks was toggled twice in a row and is open again,
\* next to a first task that is done
C19_Witness ==
    /\ mounted
    /\ Len(tasks) = 2
    /\ lastOp = [event |-> "toggleTask", input |-> tasks[2].id, repeated |-> TRUE]
    /\ tasks[1].done /\ ~tasks[2].done
====
